---- MODULE Spec2Model ----
(***************************************************************************)
(* Model of nRF51Gap (samples/BLEHeartRate/BLE_nRF51822/nRF51Gap.cpp):     *)
(* the GAP control core of the nRF51822 BLE peripheral.  Every public      *)
(* method of the class is one action.  The SoftDevice is an external       *)
(* collaborator: each of its calls returns a status chosen                 *)
(* nondeterministically, and a successful set call stores its argument.    *)
(***************************************************************************)
EXTENDS Integers, Sequences, FiniteSets, TLC

(***************************************************************************)
(* Program constants.                                                      *)
(***************************************************************************)
GAP_ADVERTISING_DATA_MAX_PAYLOAD == 31
GAP_ADV_PARAMS_INTERVAL_MIN == 32
GAP_ADV_PARAMS_INTERVAL_MIN_NONCON == 160
GAP_ADV_PARAMS_INTERVAL_MAX == 16384
GAP_ADV_PARAMS_TIMEOUT_MAX == 16383
ADDR_TYPE_RANDOM_PRIVATE_NON_RESOLVABLE == 3
BLE_CONN_HANDLE_INVALID == 65535
NRF_SUCCESS == 0
NRF_ERROR_INVALID_PARAM == 7
\* ERROR_NONE is the success status the ASSERT call sites compare with
ERROR_NONE == NRF_SUCCESS

(***************************************************************************)
(* Bounds of the model.                                                    *)
(***************************************************************************)
\* connection handles 0..MaxHandle, and BLE_CONN_HANDLE_INVALID
MaxHandle == 0
\* addr_type_t values 0..MaxAddrType
MaxAddrType == 5

(***************************************************************************)
(* Input domains.                                                          *)
(***************************************************************************)
AdvertisingTypes ==
    {"ADV_CONNECTABLE_UNDIRECTED", "ADV_CONNECTABLE_DIRECTED",
     "ADV_SCANNABLE_UNDIRECTED", "ADV_NON_CONNECTABLE_UNDIRECTED"}

\* the value just below a lower limit, and the limit
AtLower(c) == {c - 1, c}
\* an upper limit, and the value just above it
AtUpper(c) == {c, c + 1}

\* getInterval(): the values on both sides of each limit of the code
Intervals ==
    AtLower(GAP_ADV_PARAMS_INTERVAL_MIN)
        \cup AtLower(GAP_ADV_PARAMS_INTERVAL_MIN_NONCON)
        \cup AtUpper(GAP_ADV_PARAMS_INTERVAL_MAX)

\* getTimeout(): no timeout, and both sides of the limit
Timeouts == {0} \cup AtUpper(GAP_ADV_PARAMS_TIMEOUT_MAX)

\* getPayloadLen(): empty, shortest, longest allowed, and one byte too long
PayloadLens == AtLower(1) \cup AtUpper(GAP_ADVERTISING_DATA_MAX_PAYLOAD)

\* 16-bit appearance codes; the code only passes them on
Appearances == {"UNKNOWN", "GENERIC_HEART_RATE_SENSOR"}

\* a GapAdvertisingData object: getPayloadLen() and getAppearance()
Payloads == [len : PayloadLens, appearance : Appearances]

\* the scan response: only its length is read, and no limit of the code
\* applies to it
ScanPayloads == [len : {0} \cup AtUpper(GAP_ADVERTISING_DATA_MAX_PAYLOAD)]

Handles == (0..MaxHandle) \cup {BLE_CONN_HANDLE_INVALID}

AddrTypes == 0..MaxAddrType

Reasons ==
    {"REMOTE_USER_TERMINATED_CONNECTION", "CONN_INTERVAL_UNACCEPTABLE",
     "LOCAL_HOST_TERMINATED_CONNECTION"}

\* status codes a SoftDevice call can return
Statuses == {NRF_SUCCESS, NRF_ERROR_INVALID_PARAM}

(***************************************************************************)
(* State.                                                                  *)
(*   state               Gap::state, the GapState_t record                 *)
(*   m_connectionHandle  the committed connection handle                   *)
(*   fw                  what the SoftDevice holds: the advertising data   *)
(*                       last accepted and the GAP appearance value        *)
(*   lastOp              the method executed last: its arguments, the      *)
(*                       GapState it started from, the SoftDevice calls it *)
(*                       issued (in order) and the ble_error_t it returned *)
(***************************************************************************)
VARIABLES state, m_connectionHandle, fw, lastOp

vars == <<state, m_connectionHandle, fw, lastOp>>

NoArgs == [none |-> TRUE]

\* one SoftDevice call: the primitive, its arguments, the status returned
\* and the GapState at the moment the call is issued
Call(fn, args, rc, gap) == [fn |-> fn, args |-> args, rc |-> rc, gap |-> gap]

NoOut == [none |-> TRUE]

\* the three fields of GapState as one record
GapState ==
    [advertising |-> state.advertising, connected |-> state.connected,
     connectionHandle |-> m_connectionHandle]

Done(op, args, calls, result, out) ==
    lastOp' = [op |-> op, args |-> args, pre |-> GapState,
               calls |-> calls, result |-> result, out |-> out]

\* ASSERT(expected == actual, value) and ASSERT_INT(expected, actual, value):
\* when the two differ the method returns value at once
AssertFails(expected, actual) == expected # actual

\* what a method returns whose last statement before "return BLE_ERROR_NONE"
\* asserts that the status rc is ERROR_NONE
Asserted(rc) ==
    IF AssertFails(ERROR_NONE, rc)
    THEN "BLE_ERROR_PARAM_OUT_OF_RANGE"
    ELSE "BLE_ERROR_NONE"

Init ==
    /\ state = [advertising |-> 0, connected |-> 0]
    /\ m_connectionHandle = BLE_CONN_HANDLE_INVALID
    /\ fw = [advData |-> [set |-> FALSE], appearance |-> "UNKNOWN"]
    /\ lastOp = [op |-> "init", args |-> NoArgs, pre |-> GapState,
                 calls |-> <<>>, result |-> "void", out |-> NoOut]

(***************************************************************************)
(* setAdvertisingData                                                      *)
(***************************************************************************)
\* PayloadCheck with the limit compared by >= : a 31-byte payload overflows
PayloadCheckOffByOne(advData) ==
    IF advData.len >= GAP_ADVERTISING_DATA_MAX_PAYLOAD
    THEN "BLE_ERROR_BUFFER_OVERFLOW"
    ELSE IF advData.len = 0
    THEN "BLE_ERROR_PARAM_OUT_OF_RANGE"
    ELSE "BLE_ERROR_NONE"

\* PayloadCheck without the test for an empty payload
PayloadCheckNoEmpty(advData) ==
    IF advData.len > GAP_ADVERTISING_DATA_MAX_PAYLOAD
    THEN "BLE_ERROR_BUFFER_OVERFLOW"
    ELSE "BLE_ERROR_NONE"

\* the local checks on the primary payload, in the order of the code
PayloadCheck(advData) ==
    IF advData.len > GAP_ADVERTISING_DATA_MAX_PAYLOAD
    THEN "BLE_ERROR_BUFFER_OVERFLOW"
    ELSE IF advData.len = 0
    THEN "BLE_ERROR_PARAM_OUT_OF_RANGE"
    ELSE "BLE_ERROR_NONE"

\* the arguments of sd_ble_gap_adv_data_set: both payloads, unchecked
AdvDataSetArgs(advData, scanResponse) ==
    [advLen |-> advData.len, scanLen |-> scanResponse.len,
     appearance |-> advData.appearance]

\* the SoftDevice after an accepted sd_ble_gap_adv_data_set
FwAdvDataSet(f, a) ==
    [f EXCEPT !.advData = [set |-> TRUE, advLen |-> a.advLen,
                           scanLen |-> a.scanLen, appearance |-> a.appearance]]

\* the SoftDevice after an accepted sd_ble_gap_appearance_set
FwAppearanceSet(f, appearance) == [f EXCEPT !.appearance = appearance]

\* AppearanceSent without the call of sd_ble_gap_appearance_set: the method
\* returns once the advertising data is set
AppearanceNotSent(advData, scanResponse, rc2) ==
    LET a == AdvDataSetArgs(advData, scanResponse)
    IN  /\ fw' = FwAdvDataSet(fw, a)
        /\ Done("setAdvertisingData",
                [advData |-> advData, scanResponse |-> scanResponse],
                <<Call("sd_ble_gap_adv_data_set", a, ERROR_NONE, state)>>,
                "BLE_ERROR_NONE", NoOut)

\* sd_ble_gap_adv_data_set succeeded and sd_ble_gap_appearance_set
\* returned rc2: the rest of the method
AppearanceSent(advData, scanResponse, rc2) ==
    LET args == [advData |-> advData, scanResponse |-> scanResponse]
        a    == AdvDataSetArgs(advData, scanResponse)
        c1   == Call("sd_ble_gap_adv_data_set", a, ERROR_NONE, state)
        c2   == Call("sd_ble_gap_appearance_set",
                     [appearance |-> advData.appearance], rc2, state)
    IN  IF AssertFails(ERROR_NONE, rc2)
        THEN /\ fw' = FwAdvDataSet(fw, a)
             /\ Done("setAdvertisingData", args, <<c1, c2>>,
                     "BLE_ERROR_PARAM_OUT_OF_RANGE", NoOut)
        ELSE /\ fw' = FwAppearanceSet(FwAdvDataSet(fw, a), advData.appearance)
             /\ Done("setAdvertisingData", args, <<c1, c2>>,
                     "BLE_ERROR_NONE", NoOut)

\* sd_ble_gap_adv_data_set returned rc1: the rest of the method
AdvDataSent(advData, scanResponse, rc1) ==
    IF AssertFails(ERROR_NONE, rc1)
    THEN /\ fw' = fw
         /\ Done("setAdvertisingData",
                 [advData |-> advData, scanResponse |-> scanResponse],
                 <<Call("sd_ble_gap_adv_data_set",
                        AdvDataSetArgs(advData, scanResponse), rc1, state)>>,
                 "BLE_ERROR_PARAM_OUT_OF_RANGE", NoOut)
    ELSE \E rc2 \in Statuses : AppearanceSent(advData, scanResponse, rc2)

setAdvertisingData(advData, scanResponse) ==
    /\ UNCHANGED <<state, m_connectionHandle>>
    /\ IF PayloadCheck(advData) # "BLE_ERROR_NONE"
       THEN /\ fw' = fw
            /\ Done("setAdvertisingData",
                    [advData |-> advData, scanResponse |-> scanResponse],
                    <<>>, PayloadCheck(advData), NoOut)
       ELSE \E rc1 \in Statuses : AdvDataSent(advData, scanResponse, rc1)

(***************************************************************************)
(* startAdvertising                                                        *)
(***************************************************************************)
\* AdvParamsCheck with the interval and timeout tests ahead of the test for
\* the directed type
AdvParamsCheckIntervalFirst(params) ==
    IF /\ params.type = "ADV_NON_CONNECTABLE_UNDIRECTED"
       /\ \/ params.interval < GAP_ADV_PARAMS_INTERVAL_MIN_NONCON
          \/ params.interval > GAP_ADV_PARAMS_INTERVAL_MAX
    THEN "BLE_ERROR_PARAM_OUT_OF_RANGE"
    ELSE IF /\ params.type # "ADV_NON_CONNECTABLE_UNDIRECTED"
            /\ \/ params.interval < GAP_ADV_PARAMS_INTERVAL_MIN
               \/ params.interval > GAP_ADV_PARAMS_INTERVAL_MAX
    THEN "BLE_ERROR_PARAM_OUT_OF_RANGE"
    ELSE IF params.type = "ADV_CONNECTABLE_DIRECTED" /\ params.timeout # 0
    THEN "BLE_ERROR_PARAM_OUT_OF_RANGE"
    ELSE IF /\ params.type # "ADV_CONNECTABLE_DIRECTED"
            /\ params.timeout > GAP_ADV_PARAMS_TIMEOUT_MAX
    THEN "BLE_ERROR_PARAM_OUT_OF_RANGE"
    ELSE IF params.type = "ADV_CONNECTABLE_DIRECTED"
    THEN "BLE_ERROR_NOT_IMPLEMENTED"
    ELSE "BLE_ERROR_NONE"

\* AdvParamsCheck with the one lower limit GAP_ADV_PARAMS_INTERVAL_MIN for
\* every type
AdvParamsCheckOneMin(params) ==
    IF params.type = "ADV_CONNECTABLE_DIRECTED"
    THEN "BLE_ERROR_NOT_IMPLEMENTED"
    ELSE IF \/ params.interval < GAP_ADV_PARAMS_INTERVAL_MIN
            \/ params.interval > GAP_ADV_PARAMS_INTERVAL_MAX
    THEN "BLE_ERROR_PARAM_OUT_OF_RANGE"
    ELSE IF /\ params.type # "ADV_CONNECTABLE_DIRECTED"
            /\ params.timeout > GAP_ADV_PARAMS_TIMEOUT_MAX
    THEN "BLE_ERROR_PARAM_OUT_OF_RANGE"
    ELSE "BLE_ERROR_NONE"

\* AdvParamsCheck with the timeout limit compared by >=
AdvParamsCheckTimeoutOffByOne(params) ==
    IF params.type = "ADV_CONNECTABLE_DIRECTED"
    THEN "BLE_ERROR_NOT_IMPLEMENTED"
    ELSE IF /\ params.type = "ADV_NON_CONNECTABLE_UNDIRECTED"
            /\ \/ params.interval < GAP_ADV_PARAMS_INTERVAL_MIN_NONCON
               \/ params.interval > GAP_ADV_PARAMS_INTERVAL_MAX
    THEN "BLE_ERROR_PARAM_OUT_OF_RANGE"
    ELSE IF /\ params.type # "ADV_NON_CONNECTABLE_UNDIRECTED"
            /\ \/ params.interval < GAP_ADV_PARAMS_INTERVAL_MIN
               \/ params.interval > GAP_ADV_PARAMS_INTERVAL_MAX
    THEN "BLE_ERROR_PARAM_OUT_OF_RANGE"
    ELSE IF /\ params.type # "ADV_CONNECTABLE_DIRECTED"
            /\ params.timeout >= GAP_ADV_PARAMS_TIMEOUT_MAX
    THEN "BLE_ERROR_PARAM_OUT_OF_RANGE"
    ELSE "BLE_ERROR_NONE"

\* the local checks on the advertising parameters, in the order of the code
AdvParamsCheck(params) ==
    IF params.type = "ADV_CONNECTABLE_DIRECTED"
    THEN "BLE_ERROR_NOT_IMPLEMENTED"
    ELSE IF /\ params.type = "ADV_NON_CONNECTABLE_UNDIRECTED"
            /\ \/ params.interval < GAP_ADV_PARAMS_INTERVAL_MIN_NONCON
               \/ params.interval > GAP_ADV_PARAMS_INTERVAL_MAX
    THEN "BLE_ERROR_PARAM_OUT_OF_RANGE"
    ELSE IF /\ params.type # "ADV_NON_CONNECTABLE_UNDIRECTED"
            /\ \/ params.interval < GAP_ADV_PARAMS_INTERVAL_MIN
               \/ params.interval > GAP_ADV_PARAMS_INTERVAL_MAX
    THEN "BLE_ERROR_PARAM_OUT_OF_RANGE"
    ELSE IF params.type = "ADV_CONNECTABLE_DIRECTED" /\ params.timeout # 0
    THEN "BLE_ERROR_PARAM_OUT_OF_RANGE"
    ELSE IF /\ params.type # "ADV_CONNECTABLE_DIRECTED"
            /\ params.timeout > GAP_ADV_PARAMS_TIMEOUT_MAX
    THEN "BLE_ERROR_PARAM_OUT_OF_RANGE"
    ELSE "BLE_ERROR_NONE"

\* adv_para with the interval and the timeout assigned to each other's field
adv_paraSwapped(params) ==
    [type |-> params.type, p_peer_addr |-> "NULL", fp |-> "BLE_GAP_ADV_FP_ANY",
     p_whitelist |-> "NULL", interval |-> params.timeout,
     timeout |-> params.interval]

\* the ble_gap_adv_params_t record handed to sd_ble_gap_adv_start
adv_para(params) ==
    [type |-> params.type, p_peer_addr |-> "NULL", fp |-> "BLE_GAP_ADV_FP_ANY",
     p_whitelist |-> "NULL", interval |-> params.interval,
     timeout |-> params.timeout]

\* StartCommit that also marks the device connected
StartCommitConnects(st, rc) ==
    IF AssertFails(ERROR_NONE, rc)
    THEN st
    ELSE [st EXCEPT !.advertising = 1, !.connected = 1]

\* StartCommit with the flag written ahead of the assertion on the status
StartCommitAlways(st, rc) == [st EXCEPT !.advertising = 1]

\* GapState after sd_ble_gap_adv_start returned rc
StartCommit(st, rc) ==
    IF AssertFails(ERROR_NONE, rc) THEN st ELSE [st EXCEPT !.advertising = 1]

\* sd_ble_gap_adv_start returned rc: the rest of the method
AdvStarted(params, rc) ==
    /\ state' = StartCommit(state, rc)
    /\ Done("startAdvertising", params,
            <<Call("sd_ble_gap_adv_start", adv_para(params), rc, state)>>,
            Asserted(rc), NoOut)

\* startAdvertising that refuses to start while the device is advertising
startAdvertisingGuarded(params) ==
    /\ UNCHANGED <<m_connectionHandle, fw>>
    /\ IF state.advertising = 1
       THEN /\ state' = state
            /\ Done("startAdvertising", params, <<>>,
                    "BLE_ERROR_PARAM_OUT_OF_RANGE", NoOut)
       ELSE IF AdvParamsCheck(params) # "BLE_ERROR_NONE"
       THEN /\ state' = state
            /\ Done("startAdvertising", params, <<>>,
                    AdvParamsCheck(params), NoOut)
       ELSE \E rc \in Statuses : AdvStarted(params, rc)

startAdvertising(params) ==
    /\ UNCHANGED <<m_connectionHandle, fw>>
    /\ IF AdvParamsCheck(params) # "BLE_ERROR_NONE"
       THEN /\ state' = state
            /\ Done("startAdvertising", params, <<>>,
                    AdvParamsCheck(params), NoOut)
       ELSE \E rc \in Statuses : AdvStarted(params, rc)

(***************************************************************************)
(* stopAdvertising                                                         *)
(***************************************************************************)
\* StopCommit with the flag written ahead of the assertion on the status
StopCommitAlways(st, rc) == [st EXCEPT !.advertising = 0]

\* GapState after sd_ble_gap_adv_stop returned rc
StopCommit(st, rc) ==
    IF AssertFails(ERROR_NONE, rc) THEN st ELSE [st EXCEPT !.advertising = 0]

stopAdvertising(rc) ==
    LET c == Call("sd_ble_gap_adv_stop", NoArgs, rc, state)
    IN  /\ UNCHANGED <<m_connectionHandle, fw>>
        /\ state' = StopCommit(state, rc)
        /\ Done("stopAdvertising", NoArgs, <<c>>,
                Asserted(rc), NoOut)

(***************************************************************************)
(* disconnect                                                              *)
(***************************************************************************)
\* DisconnectPreCommit that clears the connected flag alone
DisconnectKeepsAdvertising(st) == [st EXCEPT !.connected = 0]

\* DisconnectPreCommit without the two assignments
DisconnectNoPreCommit(st) == st

\* GapState written before the SoftDevice is called
DisconnectPreCommit(st) == [st EXCEPT !.advertising = 0, !.connected = 0]

\* DisconnectCode without the break of the first case, which falls through
DisconnectCodeFallThrough(reason) ==
    CASE reason = "REMOTE_USER_TERMINATED_CONNECTION"
            -> "BLE_HCI_CONN_INTERVAL_UNACCEPTABLE"
      [] reason = "CONN_INTERVAL_UNACCEPTABLE"
            -> "BLE_HCI_CONN_INTERVAL_UNACCEPTABLE"
      [] OTHER -> "BLE_HCI_REMOTE_USER_TERMINATED_CONNECTION"

\* the switch from DisconnectionReason_t to the HCI status code
DisconnectCode(reason) ==
    CASE reason = "REMOTE_USER_TERMINATED_CONNECTION"
            -> "BLE_HCI_REMOTE_USER_TERMINATED_CONNECTION"
      [] reason = "CONN_INTERVAL_UNACCEPTABLE"
            -> "BLE_HCI_CONN_INTERVAL_UNACCEPTABLE"
      [] OTHER -> "BLE_HCI_REMOTE_USER_TERMINATED_CONNECTION"

\* disconnect that resets the stored handle
disconnectResetsHandle(reason, rc) ==
    LET s1 == DisconnectPreCommit(state)
        c  == Call("sd_ble_gap_disconnect",
                   [conn_handle |-> m_connectionHandle,
                    hci_status_code |-> DisconnectCode(reason)], rc, s1)
    IN  /\ m_connectionHandle' = BLE_CONN_HANDLE_INVALID
        /\ UNCHANGED fw
        /\ state' = s1
        /\ Done("disconnect", [reason |-> reason], <<c>>,
                Asserted(rc), NoOut)

disconnect(reason, rc) ==
    LET s1 == DisconnectPreCommit(state)
        c  == Call("sd_ble_gap_disconnect",
                   [conn_handle |-> m_connectionHandle,
                    hci_status_code |-> DisconnectCode(reason)], rc, s1)
    IN  /\ UNCHANGED <<m_connectionHandle, fw>>
        /\ state' = s1
        /\ Done("disconnect", [reason |-> reason], <<c>>,
                Asserted(rc), NoOut)

(***************************************************************************)
(* Connection parameters and the connection handle                         *)
(***************************************************************************)
\* the if/else of the methods that compare the status with NRF_SUCCESS
Forwarded(rc) ==
    IF rc = NRF_SUCCESS THEN "BLE_ERROR_NONE" ELSE "BLE_ERROR_PARAM_OUT_OF_RANGE"

getPreferredConnectionParams(rc) ==
    /\ UNCHANGED <<state, m_connectionHandle, fw>>
    /\ Done("getPreferredConnectionParams", NoArgs,
            <<Call("sd_ble_gap_ppcp_get", NoArgs, rc, state)>>,
            Asserted(rc), NoOut)

setPreferredConnectionParams(rc) ==
    /\ UNCHANGED <<state, m_connectionHandle, fw>>
    /\ Done("setPreferredConnectionParams", NoArgs,
            <<Call("sd_ble_gap_ppcp_set", NoArgs, rc, state)>>,
            Asserted(rc), NoOut)

\* updateConnectionParams that stores the handle it was given
updateConnectionParamsStoresHandle(handle, rc) ==
    /\ m_connectionHandle' = handle
    /\ UNCHANGED <<state, fw>>
    /\ Done("updateConnectionParams", [handle |-> handle],
            <<Call("sd_ble_gap_conn_param_update",
                   [conn_handle |-> handle], rc, state)>>,
            Forwarded(rc), NoOut)

updateConnectionParams(handle, rc) ==
    /\ UNCHANGED <<state, m_connectionHandle, fw>>
    /\ Done("updateConnectionParams", [handle |-> handle],
            <<Call("sd_ble_gap_conn_param_update",
                   [conn_handle |-> handle], rc, state)>>,
            Forwarded(rc), NoOut)

setConnectionHandle(con_handle) ==
    /\ m_connectionHandle' = con_handle
    /\ UNCHANGED <<state, fw>>
    /\ Done("setConnectionHandle", [con_handle |-> con_handle], <<>>,
            "void", NoOut)

getConnectionHandle ==
    /\ UNCHANGED <<state, m_connectionHandle, fw>>
    /\ Done("getConnectionHandle", NoArgs, <<>>, "void",
            [handle |-> m_connectionHandle])

(***************************************************************************)
(* Device identity: address, name, appearance                              *)
(***************************************************************************)
\* AddrTypeCheck with its limit one too high
AddrTypeCheckOffByOne(type) ==
    IF type > ADDR_TYPE_RANDOM_PRIVATE_NON_RESOLVABLE + 1
    THEN "BLE_ERROR_PARAM_OUT_OF_RANGE"
    ELSE "BLE_ERROR_NONE"

\* the range check on addr_type_t
AddrTypeCheck(type) ==
    IF type > ADDR_TYPE_RANDOM_PRIVATE_NON_RESOLVABLE
    THEN "BLE_ERROR_PARAM_OUT_OF_RANGE"
    ELSE "BLE_ERROR_NONE"

\* the arguments of sd_ble_gap_address_set
AddressSetArgs(type) ==
    [addr_cycle_mode |-> "BLE_GAP_ADDR_CYCLE_MODE_NONE", addr_type |-> type]

\* sd_ble_gap_address_set returned rc: the rest of the method
AddressSent(type, rc) ==
    Done("setAddress", [type |-> type],
         <<Call("sd_ble_gap_address_set", AddressSetArgs(type), rc, state)>>,
         Asserted(rc), NoOut)

setAddress(type) ==
    /\ UNCHANGED <<state, m_connectionHandle, fw>>
    /\ IF AddrTypeCheck(type) # "BLE_ERROR_NONE"
       THEN Done("setAddress", [type |-> type], <<>>, AddrTypeCheck(type), NoOut)
       ELSE \E rc \in Statuses : AddressSent(type, rc)

getAddress(rc) ==
    /\ UNCHANGED <<state, m_connectionHandle, fw>>
    /\ Done("getAddress", NoArgs,
            <<Call("sd_ble_gap_address_get", NoArgs, rc, state)>>,
            Forwarded(rc), NoOut)

setDeviceName(rc) ==
    /\ UNCHANGED <<state, m_connectionHandle, fw>>
    /\ Done("setDeviceName", NoArgs,
            <<Call("sd_ble_gap_device_name_set",
                   [sec_mode |-> "OPEN"], rc, state)>>,
            Forwarded(rc), NoOut)

getDeviceName(rc) ==
    /\ UNCHANGED <<state, m_connectionHandle, fw>>
    /\ Done("getDeviceName", NoArgs,
            <<Call("sd_ble_gap_device_name_get", NoArgs, rc, state)>>,
            Forwarded(rc), NoOut)

setAppearance(appearance, rc) ==
    /\ UNCHANGED <<state, m_connectionHandle>>
    /\ fw' = IF rc = NRF_SUCCESS THEN FwAppearanceSet(fw, appearance) ELSE fw
    /\ Done("setAppearance", [appearance |-> appearance],
            <<Call("sd_ble_gap_appearance_set",
                   [appearance |-> appearance], rc, state)>>,
            Forwarded(rc), NoOut)

\* the ble_error_t getAppearance derives from the status: the condition of
\* its if is the status itself, which C++ reads as true when it is not 0
getAppearanceResult(rc) ==
    IF rc # 0 THEN "BLE_ERROR_NONE" ELSE "BLE_ERROR_PARAM_OUT_OF_RANGE"

getAppearance(rc) ==
    /\ UNCHANGED <<state, m_connectionHandle, fw>>
    /\ Done("getAppearance", NoArgs,
            <<Call("sd_ble_gap_appearance_get", NoArgs, rc, state)>>,
            getAppearanceResult(rc),
            IF rc = NRF_SUCCESS THEN [appearance |-> fw.appearance] ELSE NoOut)

(***************************************************************************)
(* The connection-event collaborator: when a link forms it records the     *)
(* handle through setConnectionHandle and marks the GapState connected.    *)
(***************************************************************************)
ConnectionEvent(handle) ==
    /\ handle # BLE_CONN_HANDLE_INVALID
    /\ m_connectionHandle' = handle
    /\ state' = [state EXCEPT !.connected = 1]
    /\ UNCHANGED fw
    /\ Done("connectionEvent", [con_handle |-> handle], <<>>, "void", NoOut)

(***************************************************************************)
(* Specifications                                                          *)
(***************************************************************************)
AdvParams == [type : AdvertisingTypes, interval : Intervals, timeout : Timeouts]

Next ==
    \/ \E advData \in Payloads, scanResponse \in ScanPayloads :
           setAdvertisingData(advData, scanResponse)
    \/ \E params \in AdvParams : startAdvertising(params)
    \/ \E rc \in Statuses : stopAdvertising(rc)
    \/ \E reason \in Reasons, rc \in Statuses : disconnect(reason, rc)
    \/ \E rc \in Statuses : getPreferredConnectionParams(rc)
    \/ \E rc \in Statuses : setPreferredConnectionParams(rc)
    \/ \E handle \in Handles, rc \in Statuses : updateConnectionParams(handle, rc)
    \/ \E con_handle \in Handles : setConnectionHandle(con_handle)
    \/ getConnectionHandle
    \/ \E type \in AddrTypes : setAddress(type)
    \/ \E rc \in Statuses : getAddress(rc)
    \/ \E rc \in Statuses : setDeviceName(rc)
    \/ \E rc \in Statuses : getDeviceName(rc)
    \/ \E appearance \in Appearances, rc \in Statuses : setAppearance(appearance, rc)
    \/ \E rc \in Statuses : getAppearance(rc)

\* the component alone, from its constructed state
Spec == Init /\ [][Next]_vars

NextEnv ==
    \/ Next
    \/ \E handle \in Handles : ConnectionEvent(handle)

\* the component together with the connection-event collaborator
SpecEnv == Init /\ [][NextEnv]_vars

(***************************************************************************)
(* Vocabulary of the properties, stated from the specification and not     *)
(* through the operators above.                                            *)
(***************************************************************************)
\* the SoftDevice calls the last method issued
Calls == lastOp.calls

\* the last method issued no SoftDevice call
NoFirmware == Calls = <<>>

\* the last method issued exactly one call, of primitive fn
OneCall(fn) == Len(Calls) = 1 /\ Calls[1].fn = fn

\* every SoftDevice call the last method issued reported success
FirmwareAccepted == \A i \in 1..Len(Calls) : Calls[i].rc = NRF_SUCCESS

\* the type-specific interval range of section 4.2
IntervalLegal(type, interval) ==
    IF type = "ADV_NON_CONNECTABLE_UNDIRECTED"
    THEN /\ interval >= GAP_ADV_PARAMS_INTERVAL_MIN_NONCON
         /\ interval <= GAP_ADV_PARAMS_INTERVAL_MAX
    ELSE /\ interval >= GAP_ADV_PARAMS_INTERVAL_MIN
         /\ interval <= GAP_ADV_PARAMS_INTERVAL_MAX

\* an advertising parameter record that passes every rule of section 4.2
ParamsLegal(p) ==
    /\ p.type # "ADV_CONNECTABLE_DIRECTED"
    /\ IntervalLegal(p.type, p.interval)
    /\ p.timeout <= GAP_ADV_PARAMS_TIMEOUT_MAX

(***************************************************************************)
(* C1: startAdvertising leaves GapState.advertising as it was when the     *)
(* parameters fail validation or sd_ble_gap_adv_start reports failure; it  *)
(* returns BLE_ERROR_NONE with advertising true exactly when validation    *)
(* passes and the call reports success.                                    *)
(***************************************************************************)
C1_StartCommitsOnlyOnSuccess ==
    lastOp.op = "startAdvertising" =>
        IF /\ ParamsLegal(lastOp.args)
           /\ OneCall("sd_ble_gap_adv_start")
           /\ FirmwareAccepted
        THEN /\ lastOp.result = "BLE_ERROR_NONE"
             /\ state.advertising = 1
        ELSE /\ lastOp.result # "BLE_ERROR_NONE"
             /\ state.advertising = lastOp.pre.advertising

\* the scenario of the specification, started from the idle state
C1_Witness ==
    /\ lastOp.op = "startAdvertising"
    /\ lastOp.args = [type |-> "ADV_CONNECTABLE_UNDIRECTED",
                      interval |-> GAP_ADV_PARAMS_INTERVAL_MIN, timeout |-> 0]
    /\ OneCall("sd_ble_gap_adv_start") /\ FirmwareAccepted
    /\ lastOp.result = "BLE_ERROR_NONE"
    /\ lastOp.pre.advertising = 0
    /\ state.advertising = 1

(***************************************************************************)
(* C2: stopAdvertising returns BLE_ERROR_NONE with advertising false when  *)
(* sd_ble_gap_adv_stop reports success; when it reports failure the method *)
(* returns BLE_ERROR_PARAM_OUT_OF_RANGE and GapState is as before the call.*)
(***************************************************************************)
C2_StopCommitsOnlyOnSuccess ==
    lastOp.op = "stopAdvertising" =>
        /\ OneCall("sd_ble_gap_adv_stop")
        /\ IF FirmwareAccepted
           THEN /\ lastOp.result = "BLE_ERROR_NONE"
                /\ state.advertising = 0
           ELSE /\ lastOp.result = "BLE_ERROR_PARAM_OUT_OF_RANGE"
                /\ GapState = lastOp.pre

\* a failed stop while advertising on a connected link: nothing changes
C2_Witness ==
    /\ lastOp.op = "stopAdvertising"
    /\ ~FirmwareAccepted
    /\ lastOp.result = "BLE_ERROR_PARAM_OUT_OF_RANGE"
    /\ lastOp.pre.advertising = 1
    /\ lastOp.pre.connected = 1
    /\ GapState = lastOp.pre

(***************************************************************************)
(* C3: disconnect has written advertising = false and connected = false    *)
(* when sd_ble_gap_disconnect is issued, for every reason and from every   *)
(* GapState; when the call fails the method returns                        *)
(* BLE_ERROR_PARAM_OUT_OF_RANGE and both fields are still false.           *)
(***************************************************************************)
C3_DisconnectCommitsFirst ==
    lastOp.op = "disconnect" =>
        /\ OneCall("sd_ble_gap_disconnect")
        /\ Calls[1].gap.advertising = 0
        /\ Calls[1].gap.connected = 0
        /\ state.advertising = 0
        /\ state.connected = 0
        /\ ~FirmwareAccepted => lastOp.result = "BLE_ERROR_PARAM_OUT_OF_RANGE"

\* the scenario of the specification, on a connected and advertising device
C3_Witness ==
    /\ lastOp.op = "disconnect"
    /\ lastOp.args.reason = "REMOTE_USER_TERMINATED_CONNECTION"
    /\ ~FirmwareAccepted
    /\ lastOp.result = "BLE_ERROR_PARAM_OUT_OF_RANGE"
    /\ lastOp.pre.advertising = 1
    /\ lastOp.pre.connected = 1
    /\ state.advertising = 0
    /\ state.connected = 0

(***************************************************************************)
(* C4: with a scan response of at most 31 bytes and the SoftDevice         *)
(* accepting, setAdvertisingData returns BLE_ERROR_BUFFER_OVERFLOW iff the *)
(* primary payload is longer than 31 bytes, BLE_ERROR_PARAM_OUT_OF_RANGE   *)
(* iff it is empty, and BLE_ERROR_NONE iff its length is in 1..31.         *)
(***************************************************************************)
C4_PayloadLengthDecides ==
    (/\ lastOp.op = "setAdvertisingData"
     /\ lastOp.args.scanResponse.len <= 31
     /\ FirmwareAccepted)
    => LET L == lastOp.args.advData.len
       IN  /\ lastOp.result = "BLE_ERROR_BUFFER_OVERFLOW" <=> L > 31
           /\ lastOp.result = "BLE_ERROR_PARAM_OUT_OF_RANGE" <=> L = 0
           /\ lastOp.result = "BLE_ERROR_NONE" <=> (1 <= L /\ L <= 31)

\* a full 31-byte payload with an empty scan response is accepted
C4_Witness ==
    /\ lastOp.op = "setAdvertisingData"
    /\ lastOp.args.advData.len = 31
    /\ lastOp.args.scanResponse.len = 0
    /\ Len(Calls) = 2 /\ FirmwareAccepted
    /\ lastOp.result = "BLE_ERROR_NONE"

(***************************************************************************)
(* C5: when the primary payload is empty or longer than 31 bytes,          *)
(* setAdvertisingData returns its error without any SoftDevice call.       *)
(***************************************************************************)
C5_BadPayloadNeverReachesFirmware ==
    (/\ lastOp.op = "setAdvertisingData"
     /\ \/ lastOp.args.advData.len = 0
        \/ lastOp.args.advData.len > 31)
    => /\ NoFirmware
       /\ lastOp.result # "BLE_ERROR_NONE"

\* an empty payload is refused after an earlier payload was accepted
C5_Witness ==
    /\ lastOp.op = "setAdvertisingData"
    /\ lastOp.args.advData.len = 0
    /\ lastOp.result = "BLE_ERROR_PARAM_OUT_OF_RANGE"
    /\ NoFirmware
    /\ fw.advData.set

(***************************************************************************)
(* C6: a scan response longer than 31 bytes, given with a valid primary    *)
(* payload, is refused with BLE_ERROR_BUFFER_OVERFLOW, and                 *)
(* sd_ble_gap_adv_data_set is never called with a scan response length     *)
(* above 31.                                                               *)
(***************************************************************************)
C6_ScanResponseBounded ==
    lastOp.op = "setAdvertisingData" =>
        /\ (/\ 1 <= lastOp.args.advData.len
            /\ lastOp.args.advData.len <= 31
            /\ lastOp.args.scanResponse.len > 31)
           => lastOp.result = "BLE_ERROR_BUFFER_OVERFLOW"
        /\ \A i \in 1..Len(Calls) :
               Calls[i].fn = "sd_ble_gap_adv_data_set"
                   => Calls[i].args.scanLen <= 31

(***************************************************************************)
(* C7: startAdvertising with ADV_CONNECTABLE_DIRECTED returns              *)
(* BLE_ERROR_NOT_IMPLEMENTED for every interval and timeout, calls no      *)
(* SoftDevice primitive and leaves GapState unchanged.                     *)
(***************************************************************************)
C7_DirectedNotImplemented ==
    (/\ lastOp.op = "startAdvertising"
     /\ lastOp.args.type = "ADV_CONNECTABLE_DIRECTED")
    => /\ lastOp.result = "BLE_ERROR_NOT_IMPLEMENTED"
       /\ NoFirmware
       /\ GapState = lastOp.pre

\* directed, with an interval above the maximum and a timeout that is not 0
C7_Witness ==
    /\ lastOp.op = "startAdvertising"
    /\ lastOp.args.type = "ADV_CONNECTABLE_DIRECTED"
    /\ lastOp.args.interval > GAP_ADV_PARAMS_INTERVAL_MAX
    /\ lastOp.args.timeout # 0
    /\ lastOp.result = "BLE_ERROR_NOT_IMPLEMENTED"
    /\ lastOp.pre.advertising = 1

(***************************************************************************)
(* C8: for every undirected type, with the timeout within its limit,       *)
(* startAdvertising is refused by validation (BLE_ERROR_PARAM_OUT_OF_RANGE *)
(* without a SoftDevice call) iff the interval is outside the range of the *)
(* type: [MIN_NONCON, MAX] for non-connectable, [MIN, MAX] otherwise, with *)
(* MIN_NONCON > MIN.                                                       *)
(***************************************************************************)
C8_IntervalRangePerType ==
    /\ GAP_ADV_PARAMS_INTERVAL_MIN_NONCON > GAP_ADV_PARAMS_INTERVAL_MIN
    /\ (/\ lastOp.op = "startAdvertising"
        /\ lastOp.args.type # "ADV_CONNECTABLE_DIRECTED"
        /\ lastOp.args.timeout <= GAP_ADV_PARAMS_TIMEOUT_MAX)
       => ((lastOp.result = "BLE_ERROR_PARAM_OUT_OF_RANGE" /\ NoFirmware)
            <=> ~IntervalLegal(lastOp.args.type, lastOp.args.interval))

\* the scenario of the specification: non-connectable, one below MIN_NONCON
C8_Witness ==
    /\ lastOp.op = "startAdvertising"
    /\ lastOp.args = [type |-> "ADV_NON_CONNECTABLE_UNDIRECTED",
                      interval |-> GAP_ADV_PARAMS_INTERVAL_MIN_NONCON - 1,
                      timeout |-> 0]
    /\ lastOp.result = "BLE_ERROR_PARAM_OUT_OF_RANGE"
    /\ NoFirmware

(***************************************************************************)
(* C9: setAddress with a type outside the four defined variants returns    *)
(* BLE_ERROR_PARAM_OUT_OF_RANGE without calling sd_ble_gap_address_set;    *)
(* with a defined type it calls sd_ble_gap_address_set exactly once, with  *)
(* cycle mode none and that type.                                          *)
(***************************************************************************)
C9_AddressTypeChecked ==
    lastOp.op = "setAddress" =>
        IF lastOp.args.type \in 0..3
        THEN /\ OneCall("sd_ble_gap_address_set")
             /\ Calls[1].args.addr_cycle_mode = "BLE_GAP_ADDR_CYCLE_MODE_NONE"
             /\ Calls[1].args.addr_type = lastOp.args.type
        ELSE /\ lastOp.result = "BLE_ERROR_PARAM_OUT_OF_RANGE"
             /\ NoFirmware

\* the first value after the four variants is refused
C9_Witness ==
    /\ lastOp.op = "setAddress"
    /\ lastOp.args.type = 4
    /\ lastOp.result = "BLE_ERROR_PARAM_OUT_OF_RANGE"
    /\ NoFirmware

(***************************************************************************)
(* C10: getAppearance returns BLE_ERROR_NONE exactly when                  *)
(* sd_ble_gap_appearance_get reports success and                           *)
(* BLE_ERROR_PARAM_OUT_OF_RANGE exactly when it reports failure.           *)
(***************************************************************************)
C10_GetAppearanceReadsThrough ==
    lastOp.op = "getAppearance" =>
        /\ OneCall("sd_ble_gap_appearance_get")
        /\ lastOp.result = "BLE_ERROR_NONE" <=> Calls[1].rc = NRF_SUCCESS
        /\ lastOp.result = "BLE_ERROR_PARAM_OUT_OF_RANGE"
               <=> Calls[1].rc # NRF_SUCCESS

(***************************************************************************)
(* C11: whenever setAdvertisingData returns a failure, the SoftDevice      *)
(* holds the advertising data, the scan response and the appearance it     *)
(* held before the call.                                                   *)
(***************************************************************************)
C11_AdvertisingDataAtomic ==
    [][(/\ lastOp'.op = "setAdvertisingData"
        /\ lastOp'.result # "BLE_ERROR_NONE")
       => fw' = fw]_vars

(***************************************************************************)
(* C12: the appearance the SoftDevice holds equals the appearance of the   *)
(* payload of the most recent setAdvertisingData that returned             *)
(* BLE_ERROR_NONE, also after other methods ran.  Stated for the method    *)
(* that runs right after such a setAdvertisingData.                        *)
(***************************************************************************)
C12_AppearanceNeverDrifts ==
    [][(/\ lastOp.op = "setAdvertisingData"
        /\ lastOp.result = "BLE_ERROR_NONE")
       => fw'.appearance =
              IF /\ lastOp'.op = "setAdvertisingData"
                 /\ lastOp'.result = "BLE_ERROR_NONE"
              THEN lastOp'.args.advData.appearance
              ELSE lastOp.args.advData.appearance]_vars

(***************************************************************************)
(* C12, amended: a setAdvertisingData that returns BLE_ERROR_NONE leaves   *)
(* the SoftDevice with the appearance of its payload, and that value stays *)
(* until the next such setAdvertisingData or the next setAppearance the    *)
(* SoftDevice accepts.                                                     *)
(***************************************************************************)
C12_AppearanceAlignedUntilSet ==
    [][/\ (/\ lastOp'.op = "setAdvertisingData"
           /\ lastOp'.result = "BLE_ERROR_NONE")
          => /\ fw'.appearance = lastOp'.args.advData.appearance
             /\ fw'.advData.set
             /\ fw'.advData.appearance = lastOp'.args.advData.appearance
       /\ (/\ ~(/\ lastOp'.op = "setAdvertisingData"
                /\ lastOp'.result = "BLE_ERROR_NONE")
           /\ ~(/\ lastOp'.op = "setAppearance"
                /\ lastOp'.result = "BLE_ERROR_NONE"))
          => fw'.appearance = fw.appearance]_vars

\* a payload is accepted whose appearance differs from the initial one
C12_Witness ==
    /\ lastOp.op = "setAdvertisingData"
    /\ lastOp.result = "BLE_ERROR_NONE"
    /\ lastOp.args.advData.appearance = "GENERIC_HEART_RATE_SENSOR"
    /\ fw.appearance = "GENERIC_HEART_RATE_SENSOR"
    /\ fw.advData.set
    /\ fw.advData.appearance = "GENERIC_HEART_RATE_SENSOR"

(***************************************************************************)
(* C13: for every undirected type with an interval in range,               *)
(* startAdvertising returns BLE_ERROR_PARAM_OUT_OF_RANGE when the timeout  *)
(* is above TIMEOUT_MAX, without calling sd_ble_gap_adv_start and without  *)
(* changing GapState; the timeouts 0 and TIMEOUT_MAX are accepted.         *)
(***************************************************************************)
C13_TimeoutLimit ==
    (/\ lastOp.op = "startAdvertising"
     /\ lastOp.args.type # "ADV_CONNECTABLE_DIRECTED"
     /\ IntervalLegal(lastOp.args.type, lastOp.args.interval))
    => IF lastOp.args.timeout > GAP_ADV_PARAMS_TIMEOUT_MAX
       THEN /\ lastOp.result = "BLE_ERROR_PARAM_OUT_OF_RANGE"
            /\ NoFirmware
            /\ GapState = lastOp.pre
       ELSE /\ OneCall("sd_ble_gap_adv_start")
            /\ lastOp.result = Asserted(Calls[1].rc)

\* one second above the limit, while the device is advertising
C13_Witness ==
    /\ lastOp.op = "startAdvertising"
    /\ lastOp.args.type = "ADV_SCANNABLE_UNDIRECTED"
    /\ lastOp.args.interval = GAP_ADV_PARAMS_INTERVAL_MIN
    /\ lastOp.args.timeout = GAP_ADV_PARAMS_TIMEOUT_MAX + 1
    /\ lastOp.result = "BLE_ERROR_PARAM_OUT_OF_RANGE"
    /\ NoFirmware
    /\ lastOp.pre.advertising = 1
    /\ GapState = lastOp.pre

(***************************************************************************)
(* C14: every sd_ble_gap_adv_start call carries a validated, undirected    *)
(* record: the type is not directed, the interval is in the range of the   *)
(* type, the timeout is at most TIMEOUT_MAX, the three equal the caller's  *)
(* values, no peer address, filter policy "any", no whitelist.             *)
(***************************************************************************)
C14_AdvStartRecordValidated ==
    \A i \in 1..Len(Calls) :
        Calls[i].fn = "sd_ble_gap_adv_start"
        => /\ lastOp.op = "startAdvertising"
           /\ Calls[i].args.type # "ADV_CONNECTABLE_DIRECTED"
           /\ IntervalLegal(Calls[i].args.type, Calls[i].args.interval)
           /\ Calls[i].args.timeout <= GAP_ADV_PARAMS_TIMEOUT_MAX
           /\ Calls[i].args.type = lastOp.args.type
           /\ Calls[i].args.interval = lastOp.args.interval
           /\ Calls[i].args.timeout = lastOp.args.timeout
           /\ Calls[i].args.p_peer_addr = "NULL"
           /\ Calls[i].args.fp = "BLE_GAP_ADV_FP_ANY"
           /\ Calls[i].args.p_whitelist = "NULL"

\* a scannable start at the largest interval and the largest timeout
C14_Witness ==
    /\ lastOp.op = "startAdvertising"
    /\ OneCall("sd_ble_gap_adv_start")
    /\ Calls[1].args.type = "ADV_SCANNABLE_UNDIRECTED"
    /\ Calls[1].args.interval = GAP_ADV_PARAMS_INTERVAL_MAX
    /\ Calls[1].args.timeout = GAP_ADV_PARAMS_TIMEOUT_MAX

(***************************************************************************)
(* C15: disconnect passes the stored connection handle and a valid reason  *)
(* code to sd_ble_gap_disconnect: remote-user-terminated and               *)
(* conn-interval-unacceptable map to their codes, every other reason maps  *)
(* to the remote-user-terminated code.                                     *)
(***************************************************************************)
C15_DisconnectReasonCode ==
    lastOp.op = "disconnect" =>
        /\ OneCall("sd_ble_gap_disconnect")
        /\ Calls[1].args.conn_handle = m_connectionHandle
        /\ Calls[1].args.conn_handle = lastOp.pre.connectionHandle
        /\ Calls[1].args.hci_status_code =
               IF lastOp.args.reason = "CONN_INTERVAL_UNACCEPTABLE"
               THEN "BLE_HCI_CONN_INTERVAL_UNACCEPTABLE"
               ELSE "BLE_HCI_REMOTE_USER_TERMINATED_CONNECTION"

\* a reason the switch has no case for, on a stored handle
C15_Witness ==
    /\ lastOp.op = "disconnect"
    /\ lastOp.args.reason = "LOCAL_HOST_TERMINATED_CONNECTION"
    /\ OneCall("sd_ble_gap_disconnect")
    /\ Calls[1].args.hci_status_code = "BLE_HCI_REMOTE_USER_TERMINATED_CONNECTION"
    /\ Calls[1].args.conn_handle = 0

(***************************************************************************)
(* C16: setAdvertisingData, updateConnectionParams, the preferred          *)
(* connection parameter, address, device name and appearance methods leave *)
(* advertising, connected and connectionHandle unchanged for every input   *)
(* and SoftDevice outcome; only startAdvertising, stopAdvertising and      *)
(* disconnect change advertising or connected.                             *)
(***************************************************************************)
C16_GapStateFrame ==
    /\ lastOp.op \in {"setAdvertisingData", "updateConnectionParams",
                      "getPreferredConnectionParams",
                      "setPreferredConnectionParams",
                      "setAddress", "getAddress",
                      "setDeviceName", "getDeviceName",
                      "setAppearance", "getAppearance"}
       => GapState = lastOp.pre
    /\ lastOp.op \notin {"startAdvertising", "stopAdvertising", "disconnect"}
       => /\ state.advertising = lastOp.pre.advertising
          /\ state.connected = lastOp.pre.connected

\* a refused update for another handle, while the device is advertising
C16_Witness ==
    /\ lastOp.op = "updateConnectionParams"
    /\ lastOp.result = "BLE_ERROR_PARAM_OUT_OF_RANGE"
    /\ lastOp.args.handle # m_connectionHandle
    /\ lastOp.pre.advertising = 1
    /\ GapState = lastOp.pre

(***************************************************************************)
(* C17: setConnectionHandle stores its argument, getConnectionHandle       *)
(* returns the stored value, and no other method changes it: after a       *)
(* disconnect, successful or not, the handle is the one stored before.     *)
(***************************************************************************)
C17_HandleOnlySetBySetter ==
    /\ lastOp.op = "setConnectionHandle"
       => m_connectionHandle = lastOp.args.con_handle
    /\ lastOp.op = "getConnectionHandle"
       => lastOp.out.handle = m_connectionHandle
    /\ lastOp.op # "setConnectionHandle"
       => m_connectionHandle = lastOp.pre.connectionHandle

\* a disconnect on a stored handle: the handle is kept
C17_Witness ==
    /\ lastOp.op = "disconnect"
    /\ lastOp.pre.connectionHandle = 0
    /\ m_connectionHandle = 0

(***************************************************************************)
(* C18: no method of the component sets connected to true: from the        *)
(* initial state, connected is false in every state the component's own    *)
(* methods reach.                                                          *)
(***************************************************************************)
C18_NeverConnected ==
    /\ state.connected = 0
    /\ lastOp.pre.connected = 0
    /\ \A i \in 1..Len(Calls) : Calls[i].gap.connected = 0

\* the device advertises after a successful start and is not connected
C18_Witness ==
    /\ lastOp.op = "startAdvertising"
    /\ lastOp.result = "BLE_ERROR_NONE"
    /\ state.advertising = 1
    /\ state.connected = 0

(***************************************************************************)
(* C19: advertising is true exactly when the most recent of the events     *)
(* "startAdvertising returned BLE_ERROR_NONE", "stopAdvertising returned   *)
(* BLE_ERROR_NONE" and "disconnect was called" is the first of the three.  *)
(* Stated method by method: such a start leaves it true, such a stop and   *)
(* every disconnect leave it false, every other method (failed starts and  *)
(* stops included) leaves it as it was, and it is false initially.         *)
(***************************************************************************)
C19_AdvertisingFollowsLastEvent ==
    IF lastOp.op = "startAdvertising" /\ lastOp.result = "BLE_ERROR_NONE"
    THEN state.advertising = 1
    ELSE IF \/ lastOp.op = "stopAdvertising" /\ lastOp.result = "BLE_ERROR_NONE"
            \/ lastOp.op = "disconnect"
            \/ lastOp.op = "init"
    THEN state.advertising = 0
    ELSE state.advertising = lastOp.pre.advertising

\* a failed stop while advertising: the device still advertises
C19_Witness ==
    /\ lastOp.op = "stopAdvertising"
    /\ lastOp.result # "BLE_ERROR_NONE"
    /\ lastOp.pre.advertising = 1
    /\ state.advertising = 1

(***************************************************************************)
(* C20: startAdvertising, stopAdvertising and disconnect have no           *)
(* precondition on GapState: each reaches the SoftDevice from every state  *)
(* (a start whenever its parameters are legal), and the result is a        *)
(* function of the arguments and the SoftDevice status alone.              *)
(***************************************************************************)
C20_NoStatePrecondition ==
    /\ lastOp.op = "startAdvertising"
       => IF ParamsLegal(lastOp.args)
          THEN /\ OneCall("sd_ble_gap_adv_start")
               /\ lastOp.result = IF Calls[1].rc = NRF_SUCCESS
                                  THEN "BLE_ERROR_NONE"
                                  ELSE "BLE_ERROR_PARAM_OUT_OF_RANGE"
          ELSE /\ NoFirmware
               /\ lastOp.result =
                      IF lastOp.args.type = "ADV_CONNECTABLE_DIRECTED"
                      THEN "BLE_ERROR_NOT_IMPLEMENTED"
                      ELSE "BLE_ERROR_PARAM_OUT_OF_RANGE"
    /\ lastOp.op = "stopAdvertising"
       => /\ OneCall("sd_ble_gap_adv_stop")
          /\ lastOp.result = IF Calls[1].rc = NRF_SUCCESS
                             THEN "BLE_ERROR_NONE"
                             ELSE "BLE_ERROR_PARAM_OUT_OF_RANGE"
    /\ lastOp.op = "disconnect"
       => /\ OneCall("sd_ble_gap_disconnect")
          /\ lastOp.result = IF Calls[1].rc = NRF_SUCCESS
                             THEN "BLE_ERROR_NONE"
                             ELSE "BLE_ERROR_PARAM_OUT_OF_RANGE"

\* a start is forwarded and succeeds while the device is advertising on a
\* connected link
C20_Witness ==
    /\ lastOp.op = "startAdvertising"
    /\ lastOp.pre.advertising = 1
    /\ lastOp.pre.connected = 1
    /\ OneCall("sd_ble_gap_adv_start")
    /\ lastOp.result = "BLE_ERROR_NONE"

====
